---- MODULE Spec2Model ----
(***************************************************************************)
(* Model of marker/processors/llm/__init__.py: the LLM block processors.   *)
(*                                                                         *)
(*   BaseLLMProcessor              normalize_block_json, load_blocks,      *)
(*                                 handle_rewrites                         *)
(*   BaseLLMComplexBlockProcessor  __call__, rewrite_blocks (thread pool)  *)
(*   BaseLLMSimpleBlockProcessor   __call__, inference_blocks              *)
(*                                                                         *)
(* Three specifications share the variables:                               *)
(*   Spec         the complex processor: __call__ / rewrite_blocks and the *)
(*                worker threads of its ThreadPoolExecutor                 *)
(*   SpecRewrite  load_blocks followed by handle_rewrites on one document  *)
(*   SpecSimple   the simple processor driven by an external caller loop   *)
(***************************************************************************)
EXTENDS Integers, Sequences, FiniteSets, TLC

\* ------------------------------------------------------------------------
\* Bounds of the model
\* ------------------------------------------------------------------------
MaxPages == 2
MaxBlocks == 3
MaxPool == 3
MaxBatch == 3

\* ------------------------------------------------------------------------
\* Document tree: a document is a sequence of pages, a page a sequence of
\* blocks.  page_id and block_id are the 0-based positions.
\* ------------------------------------------------------------------------
BlockTypeNames == {"Table", "Text"}

NoTypes == [none |-> TRUE, types |-> {}]

OnlyTypes(ts) == [none |-> FALSE, types |-> ts]

NewBlock(t) == [block_type |-> t, html |-> "orig", has_html |-> TRUE]

RECURSIVE SeqsUpTo(_, _)
SeqsUpTo(S, n) ==
    IF n = 0 THEN {<<>>}
    ELSE LET shorter == SeqsUpTo(S, n - 1)
         IN  shorter \cup {Append(s, x) : s \in {t \in shorter : Len(t) = n - 1}, x \in S}

RECURSIVE NumBlocks(_)
NumBlocks(doc) == IF doc = <<>> THEN 0 ELSE Len(Head(doc)) + NumBlocks(Tail(doc))

\* Documents of at most MaxPages pages and MaxBlocks blocks in all.
PoolPages == SeqsUpTo({NewBlock(t) : t \in BlockTypeNames}, MaxBlocks)

PoolDocuments == {d \in SeqsUpTo(PoolPages, MaxPages) : NumBlocks(d) <= MaxBlocks}

\* page.contained_blocks(document, block_types): the block ids of the page,
\* in page order, whose type is in block_types (all of them when block_types
\* is None).
Matches(blk, types) == types.none \/ blk.block_type \in types.types

RECURSIVE contained_from(_, _, _)
contained_from(page, types, i) ==
    IF i > Len(page) THEN <<>>
    ELSE (IF Matches(page[i], types) THEN <<i - 1>> ELSE <<>>)
         \o contained_from(page, types, i + 1)

contained_blocks(page, types) == contained_from(page, types, 1)

RECURSIVE SumLens(_, _, _)
SumLens(doc, types, p) ==
    IF p > Len(doc) THEN 0
    ELSE Len(contained_blocks(doc[p], types)) + SumLens(doc, types, p + 1)

total_blocks_pages(doc, types) == Len(doc)

\* rewrite_blocks, lines 151-154
total_blocks(doc, types) == SumLens(doc, types, 1)

\* The (page_id, block_id) pairs of a document, and the matching ones.
AllPairs(doc) ==
    UNION {{<<p - 1, b - 1>> : b \in DOMAIN doc[p]} : p \in DOMAIN doc}

BlockAt(doc, pr) == doc[pr[1] + 1][pr[2] + 1]

MatchingPairs(doc, types) ==
    {pr \in AllPairs(doc) : Matches(BlockAt(doc, pr), types)}

SetHtml(doc, pr, h) ==
    [doc EXCEPT ![pr[1] + 1] = [@ EXCEPT ![pr[2] + 1] = [@ EXCEPT !.html = h]]]

\* The target block of a submitted task
TargetOf(t) == <<t.page, t.block>>

\* ------------------------------------------------------------------------
\* State
\* ------------------------------------------------------------------------
VARIABLES
    document,        \* the Document being processed
    document0,       \* the Document as handed to the processor
    use_llm,         \* config: master switch
    llm_service,     \* "None" or "service", as left by __init__
    max_concurrency, \* config: pool size
    block_types,     \* class attribute: the type filter
    pc,              \* position of the thread running __call__
    counted,         \* rewrite_blocks evaluated total_blocks
    pbar,            \* tqdm bar: "none", "open", "closed"
    pbar_n,          \* tqdm counter
    executor,        \* ThreadPoolExecutor: "none", "open", "shutdown"
    tasks,           \* submitted futures, in submission order
    page_cursor,     \* next page of the submitting comprehension (1-based)
    page_blocks,     \* blocks of the current page still to submit
    yielded,         \* futures as_completed has already yielded
    visits,          \* process_rewriting invocations per (page_id, block_id)
    raised,          \* an exception is propagating out of rewrite_blocks
    warnings,        \* warnings logged by __call__
    propagated,      \* an exception left __call__
    response,        \* response["blocks"]: the raw result strings of a batch
    blocks,          \* the records load_blocks returned
    rw_pc,           \* "start", "loaded", "load_raised", "done", "raised",
                     \* and "done_twice", "raised_twice" after a second call
    outcomes,        \* what handle_rewrites did with each record it reached
    prompts,         \* the (page, block) pairs the external caller loops over
    sp_pc,           \* the caller's loop: "start", "looping", "done", "aborted"
    attempts,        \* how each rewrite_block call made so far ended
    nm_args,         \* the block, page size and bbox normalize_block_json got
    block_json,      \* what normalize_block_json returned
    nm_pc            \* request side: "start", "normalized", "answered"

poolvars == <<document, document0, use_llm, llm_service, max_concurrency,
              block_types, pc, counted, pbar, pbar_n, executor, tasks,
              page_cursor, page_blocks, yielded, visits, raised, warnings,
              propagated>>

rwvars == <<response, blocks, rw_pc, outcomes>>

spvars == <<prompts, sp_pc, attempts>>

nmvars == <<nm_args, block_json, nm_pc>>

vars == <<poolvars, rwvars, spvars, nmvars>>

\* No request built yet
NoArgs == [pr |-> <<0, 0>>, page |-> <<1, 1>>, bbox |-> <<0, 0, 0, 0>>]

NoBlockJson == [id |-> <<>>, block_type |-> "", bbox |-> <<>>, html |-> ""]

\* BaseLLMProcessor.__init__, lines 60-67
init_llm_service(use, service) == IF ~use THEN "None" ELSE service

Init ==
    /\ document \in PoolDocuments
    /\ document0 = document
    /\ use_llm \in BOOLEAN
    /\ \E service \in {"None", "service"} :
           llm_service = init_llm_service(use_llm, service)
    /\ max_concurrency \in 1..MaxPool
    /\ block_types \in {NoTypes, OnlyTypes({"Table"})}
    /\ pc = "idle"
    /\ counted = FALSE
    /\ pbar = "none"
    /\ pbar_n = 0
    /\ executor = "none"
    /\ tasks = <<>>
    /\ page_cursor = 1
    /\ page_blocks = <<>>
    /\ yielded = {}
    /\ visits = [pr \in AllPairs(document) |-> 0]
    /\ raised = FALSE
    /\ warnings = 0
    /\ propagated = FALSE
    /\ response = <<>>
    /\ blocks = <<>>
    /\ rw_pc = "start"
    /\ outcomes = <<>>
    /\ prompts = <<>>
    /\ sp_pc = "start"
    /\ attempts = <<>>
    /\ nm_args = NoArgs
    /\ block_json = NoBlockJson
    /\ nm_pc = "start"

\* ------------------------------------------------------------------------
\* BaseLLMComplexBlockProcessor
\* ------------------------------------------------------------------------
llm_disabled_both(use, service) == ~use /\ service = "None"

\* __call__, line 138
llm_disabled(use, service) == ~use \/ service = "None"

Completed(t) == t.state \in {"done", "failed"}

Running == {i \in DOMAIN tasks : tasks[i].state = "running"}

Queued == {i \in DOMAIN tasks : tasks[i].state = "queued"}

WorkerAvailable_unbounded(running, k) == TRUE

WorkerAvailable_never(running, k) == FALSE

\* ThreadPoolExecutor(max_workers=self.max_concurrency): a queued work item
\* is taken only by one of at most max_workers worker threads.
WorkerAvailable(running, k) == Cardinality(running) < k

PoolDrained_nowait(ts) == TRUE

submit_twice(ts, page_id, block_id) ==
    ts \o << [page |-> page_id, block |-> block_id, state |-> "queued"],
             [page |-> page_id, block |-> block_id, state |-> "queued"] >>

\* executor.submit(self.process_rewriting, document, page, block), line 164
submit(ts, page_id, block_id) ==
    Append(ts, [page |-> page_id, block |-> block_id, state |-> "queued"])

\* Leaving the with block calls shutdown(wait=True), which joins the worker
\* threads; they exit only when the work queue is empty.
PoolDrained(ts) == \A i \in DOMAIN ts : Completed(ts[i])

Catches_nothing(exc) == FALSE

\* The except clause of __call__, line 143
Catches(exc) == exc \in {"Exception"}

\* __call__ up to the creation of the pool, lines 137-161
Call ==
    /\ pc = "idle"
    /\ IF llm_disabled(use_llm, llm_service)
       THEN /\ pc' = "returned"
            /\ UNCHANGED <<counted, pbar, executor>>
       ELSE /\ counted' = TRUE
            /\ IF total_blocks(document, block_types) = 0
               THEN /\ pc' = "returned"
                    /\ UNCHANGED <<pbar, executor>>
               ELSE /\ pbar' = "open"
                    /\ executor' = "open"
                    /\ pc' = "submitting"
    /\ UNCHANGED <<rwvars, spvars, nmvars, document, document0, use_llm, llm_service, max_concurrency,
                   block_types, pbar_n, tasks, page_cursor, page_blocks,
                   yielded, visits, raised, warnings, propagated>>

enumerate_page_first(doc, p, types) == contained_blocks(doc[1], types)

\* page.contained_blocks(document, self.block_types) for the p-th page of
\* document.pages, lines 165-166
enumerate_page(doc, p, types) == contained_blocks(doc[p], types)

\* The comprehension of lines 163-167 reaches the next page and evaluates
\* page.contained_blocks(document, self.block_types) ...
EnumeratePage ==
    /\ pc = "submitting"
    /\ page_blocks = <<>>
    /\ page_cursor <= Len(document)
    /\ page_blocks' = enumerate_page(document, page_cursor, block_types)
    /\ page_cursor' = page_cursor + 1
    /\ UNCHANGED <<rwvars, spvars, nmvars, document, document0, use_llm, llm_service, max_concurrency,
                   block_types, pc, counted, pbar, pbar_n, executor, tasks,
                   yielded, visits, raised, warnings, propagated>>

\* ... and submits one task for each block of that page, line 164
Submit ==
    /\ pc = "submitting"
    /\ page_blocks # <<>>
    /\ tasks' = submit(tasks, page_cursor - 2, Head(page_blocks))
    /\ page_blocks' = Tail(page_blocks)
    /\ UNCHANGED <<rwvars, spvars, nmvars, document, document0, use_llm, llm_service, max_concurrency,
                   block_types, pc, counted, pbar, pbar_n, executor,
                   page_cursor, yielded, visits, raised, warnings, propagated>>

\* The list of futures is complete: as_completed starts, line 162
StartCollect ==
    /\ pc = "submitting"
    /\ page_blocks = <<>>
    /\ page_cursor > Len(document)
    /\ pc' = IF tasks = <<>> THEN "exiting" ELSE "collecting"
    /\ UNCHANGED <<rwvars, spvars, nmvars, document, document0, use_llm, llm_service, max_concurrency,
                   block_types, counted, pbar, pbar_n, executor, tasks,
                   page_cursor, page_blocks, yielded, visits, raised,
                   warnings, propagated>>

\* A worker thread takes the oldest queued work item and enters
\* process_rewriting(document, page, block).
WorkerStart ==
    /\ Queued # {}
    /\ WorkerAvailable(Running, max_concurrency)
    /\ LET i == CHOOSE j \in Queued : \A m \in Queued : j <= m
           pr == <<tasks[i].page, tasks[i].block>>
       IN  /\ tasks' = [tasks EXCEPT ![i].state = "running"]
           /\ visits' = [visits EXCEPT ![pr] = @ + 1]
    /\ UNCHANGED <<rwvars, spvars, nmvars, document, document0, use_llm, llm_service, max_concurrency,
                   block_types, pc, counted, pbar, pbar_n, executor,
                   page_cursor, page_blocks, yielded, raised, warnings,
                   propagated>>

\* process_rewriting returns or raises.  It may read the document and
\* rewrite its own block: on success the block carries the new markup.
WorkerFinish ==
    \E i \in Running, ok \in BOOLEAN :
        /\ tasks' = [tasks EXCEPT ![i].state = IF ok THEN "done" ELSE "failed"]
        /\ document' = IF ok
                       THEN SetHtml(document, TargetOf(tasks[i]), "llm")
                       ELSE document
        /\ UNCHANGED <<rwvars, spvars, nmvars, document0, use_llm, llm_service,
                       max_concurrency, block_types, pc, counted, pbar, pbar_n,
                       executor, page_cursor, page_blocks, yielded, visits,
                       raised, warnings, propagated>>

as_completed_any(ts, done) == DOMAIN ts \ done

\* as_completed(futures), line 162: the futures it can yield next are those
\* that have completed and were not yielded before.
as_completed(ts, done) == {i \in DOMAIN ts \ done : Completed(ts[i])}

\* One iteration of the as_completed loop, lines 162-170: some completed
\* future is yielded; future.result() raises the task's exception, else the
\* bar advances.
Collect ==
    /\ pc = "collecting"
    /\ \E i \in as_completed(tasks, yielded) :
        /\ yielded' = yielded \cup {i}
        /\ IF tasks[i].state = "failed"
           THEN /\ raised' = TRUE
                /\ pc' = "exiting"
                /\ UNCHANGED pbar_n
           ELSE /\ pbar_n' = pbar_n + 1
                /\ pc' = IF yielded' = DOMAIN tasks THEN "exiting" ELSE pc
                /\ UNCHANGED raised
    /\ UNCHANGED <<rwvars, spvars, nmvars, document, document0, use_llm, llm_service, max_concurrency,
                   block_types, counted, pbar, executor, tasks, page_cursor,
                   page_blocks, visits, warnings, propagated>>

\* Leaving the with block, line 161, then line 172 on the normal path.
ExitPool ==
    /\ pc = "exiting"
    /\ PoolDrained(tasks)
    /\ executor' = "shutdown"
    /\ IF raised
       THEN /\ pc' = "rb_raised"
            /\ UNCHANGED pbar
       ELSE /\ pc' = "rb_returned"
            /\ pbar' = "closed"
    /\ UNCHANGED <<rwvars, spvars, nmvars, document, document0, use_llm, llm_service, max_concurrency,
                   block_types, counted, pbar_n, tasks, page_cursor,
                   page_blocks, yielded, visits, raised, warnings, propagated>>

\* rewrite_blocks is back in __call__, lines 141-144
CallReturn ==
    /\ pc \in {"rb_raised", "rb_returned"}
    /\ pc' = "returned"
    /\ IF pc = "rb_raised"
       THEN IF Catches("Exception")
            THEN /\ warnings' = warnings + 1
                 /\ UNCHANGED propagated
            ELSE /\ propagated' = TRUE
                 /\ UNCHANGED warnings
       ELSE UNCHANGED <<warnings, propagated>>
    /\ UNCHANGED <<rwvars, spvars, nmvars, document, document0, use_llm, llm_service, max_concurrency,
                   block_types, counted, pbar, pbar_n, executor, tasks,
                   page_cursor, page_blocks, yielded, visits, raised>>

Next ==
    \/ Call
    \/ EnumeratePage
    \/ Submit
    \/ StartCollect
    \/ WorkerStart
    \/ WorkerFinish
    \/ Collect
    \/ ExitPool
    \/ CallReturn

Spec == Init /\ [][Next]_vars

\* The thread that runs __call__
MainThread ==
    \/ Call
    \/ EnumeratePage
    \/ Submit
    \/ StartCollect
    \/ Collect
    \/ ExitPool
    \/ CallReturn

\* The thread running __call__ keeps running, an idle worker takes queued
\* work, and every process_rewriting invocation finishes.
FairSpec ==
    /\ Init
    /\ [][Next]_vars
    /\ WF_vars(MainThread)
    /\ WF_vars(WorkerStart)
    /\ WF_vars(WorkerFinish)

\* ------------------------------------------------------------------------
\* Properties of the complex processor (checked under Spec)
\* ------------------------------------------------------------------------
RewriteBlocksExited == pc \in {"rb_raised", "rb_returned", "returned"}

\* C1: when rewrite_blocks exits, by return or by raising, every task that
\* was submitted to the pool has run to completion: none is still queued or
\* running, whatever subset of the hooks failed; a failure cancels nothing.
C1_DrainAll ==
    RewriteBlocksExited =>
        \A i \in DOMAIN tasks :
            /\ Completed(tasks[i])
            /\ visits[TargetOf(tasks[i])] >= 1

\* rewrite_blocks raised on the first future it looked at, and tasks it never
\* looked at have nevertheless run, some to success and some to failure.
C1_Witness ==
    /\ pc = "rb_raised"
    /\ Cardinality(yielded) = 1
    /\ \E i \in DOMAIN tasks \ yielded : tasks[i].state = "done"
    /\ \E i \in DOMAIN tasks \ yielded : tasks[i].state = "failed"

\* C2: after __call__ returns with the LLM enabled and a service bound,
\* process_rewriting has been invoked exactly once for each matching
\* (page, block) pair and never for another block, whatever the pool size.
C2_VisitedExactlyOnce ==
    (pc = "returned" /\ use_llm /\ llm_service # "None") =>
        \A pr \in AllPairs(document0) :
            visits[pr] = IF pr \in MatchingPairs(document0, block_types)
                         THEN 1 ELSE 0

C2_Witness ==
    /\ pc = "returned"
    /\ max_concurrency < Cardinality(MatchingPairs(document0, block_types))
    /\ MatchingPairs(document0, block_types) # AllPairs(document0)
    /\ warnings = 1
    /\ \A pr \in MatchingPairs(document0, block_types) : visits[pr] = 1

\* C3: at most max_concurrency process_rewriting tasks execute at once.
C3_BoundedConcurrency == Cardinality(Running) <= max_concurrency

C3_Witness ==
    /\ Cardinality(Running) = max_concurrency
    /\ Queued # {}

\* C4: no failure leaves __call__: when tasks failed, __call__ logs one
\* warning and returns normally.
C4_NeverPropagates ==
    /\ ~propagated
    /\ pc = "returned" =>
          warnings = IF \E i \in DOMAIN tasks : tasks[i].state = "failed"
                     THEN 1 ELSE 0

C4_Witness ==
    /\ pc = "returned"
    /\ raised
    /\ warnings = 1
    /\ Cardinality({i \in DOMAIN tasks : tasks[i].state = "failed"}) >= 2

\* C8: when no block matches block_types, no pool is created, no task is
\* submitted, no progress bar is created or advanced, and the document is
\* left as it was.
C8_ZeroWorkShortCircuit ==
    MatchingPairs(document0, block_types) = {} =>
        /\ executor = "none"
        /\ tasks = <<>>
        /\ pbar = "none"
        /\ pbar_n = 0
        /\ document = document0
        /\ pc \in {"idle", "returned"}

C8_Witness ==
    /\ pc = "returned"
    /\ counted
    /\ MatchingPairs(document0, block_types) = {}
    /\ AllPairs(document0) # {}

\* C9: with use_llm off, or no service bound (which __init__ forces when
\* use_llm is off), __call__ counts nothing, creates no pool, never invokes
\* process_rewriting, leaves the document alone and raises nothing.
C9_DisabledIsNoOp ==
    /\ ~use_llm => llm_service = "None"
    /\ (~use_llm \/ llm_service = "None") =>
          /\ ~counted
          /\ executor = "none"
          /\ pbar = "none"
          /\ tasks = <<>>
          /\ \A pr \in AllPairs(document0) : visits[pr] = 0
          /\ document = document0
          /\ ~propagated
          /\ warnings = 0
          /\ pc \in {"idle", "returned"}

C9_Witness ==
    /\ pc = "returned"
    /\ use_llm
    /\ llm_service = "None"
    /\ MatchingPairs(document0, block_types) # {}

\* ------------------------------------------------------------------------
\* Strings.  A string is a sequence of characters; "/" is the separator and
\* " " is whitespace.  A run of letters that no operation of this module
\* ever cuts ("page", "Table", "UnknownType", "p1", ...) is kept as one
\* element of the sequence.
\* ------------------------------------------------------------------------
Digits == <<"0", "1", "2", "3", "4", "5", "6", "7", "8", "9">>

IsDigit(c) == \E i \in DOMAIN Digits : Digits[i] = c

DigitValue(c) == (CHOOSE i \in DOMAIN Digits : Digits[i] = c) - 1

\* str(n) for a natural number
RECURSIVE str_int(_)
str_int(n) ==
    IF n < Len(Digits) THEN <<Digits[n + 1]>>
    ELSE str_int(n \div Len(Digits)) \o <<Digits[(n % Len(Digits)) + 1]>>

\* int(s): defined when s is a non-empty run of digits
IsInt(s) == s # <<>> /\ \A i \in DOMAIN s : IsDigit(s[i])

RECURSIVE int_str(_)
int_str(s) ==
    IF s = <<>> THEN 0
    ELSE int_str(SubSeq(s, 1, Len(s) - 1)) * Len(Digits) + DigitValue(s[Len(s)])

RECURSIVE lstrip(_, _)
lstrip(s, c) == IF s # <<>> /\ Head(s) = c THEN lstrip(Tail(s), c) ELSE s

RECURSIVE rstrip(_, _)
rstrip(s, c) ==
    IF s # <<>> /\ s[Len(s)] = c THEN rstrip(SubSeq(s, 1, Len(s) - 1), c) ELSE s

\* str.strip(): leading and trailing whitespace
strip(s) == rstrip(lstrip(s, " "), " ")

\* str.split(sep)
RECURSIVE split(_, _)
split(s, sep) ==
    IF \A i \in DOMAIN s : s[i] # sep THEN <<s>>
    ELSE LET i == CHOOSE j \in DOMAIN s :
                    s[j] = sep /\ \A m \in 1..(j - 1) : s[m] # sep
         IN  <<SubSeq(s, 1, i - 1)>> \o split(SubSeq(s, i + 1, Len(s)), sep)

\* ------------------------------------------------------------------------
\* Block addresses
\* ------------------------------------------------------------------------
BlockId(page_id, block_type, block_id) ==
    [page_id |-> page_id, block_type |-> block_type, block_id |-> block_id]

\* str(block.id): "/page/<page_id>/<block_type>/<block_id>"
str_BlockId(a) ==
    <<"/", "page", "/">> \o str_int(a.page_id) \o <<"/", a.block_type, "/">>
        \o str_int(a.block_id)

\* getattr(BlockTypes, name) succeeds for the names of the enumeration
HasBlockType(name) == Len(name) = 1 /\ name[1] \in BlockTypeNames

\* document.get_block(block_id): the (page_id, block_id) pair of the block
\* with that address, or no block
HasBlock(doc, a) ==
    /\ <<a.page_id, a.block_id>> \in AllPairs(doc)
    /\ BlockAt(doc, <<a.page_id, a.block_id>>).block_type = a.block_type

get_block(doc, a) == <<a.page_id, a.block_id>>

\* ------------------------------------------------------------------------
\* JSON.  A JSON text is a sequence of tokens; a JSON string value is
\* [str |-> s], a number [num |-> n].  The html member carries markup as an
\* opaque string.
\* ------------------------------------------------------------------------
JStr(s) == [str |-> s]

JNum(n) == [num |-> n]

LBrace == [tok |-> "{"]

RBrace == [tok |-> "}"]

Member(k, v) == [tok |-> "member", key |-> k, value |-> v]

json_dumps(obj) ==
    <<LBrace>>
    \o (IF "id" \in DOMAIN obj THEN <<Member("id", obj.id)>> ELSE <<>>)
    \o (IF "html" \in DOMAIN obj THEN <<Member("html", obj.html)>> ELSE <<>>)
    \o <<RBrace>>

\* The value of the last member named k
LastMember(raw, k) ==
    LET i == CHOOSE j \in DOMAIN raw :
                 /\ raw[j].tok = "member" /\ raw[j].key = k
                 /\ \A m \in (j + 1)..Len(raw) :
                        ~(raw[m].tok = "member" /\ raw[m].key = k)
    IN  raw[i].value

HasMember(raw, k) ==
    \E j \in DOMAIN raw : raw[j].tok = "member" /\ raw[j].key = k

\* json.loads(raw): the object, or JSONDecodeError
json_loads(raw) ==
    IF /\ Len(raw) >= 2
       /\ raw[1].tok = "{"
       /\ raw[Len(raw)].tok = "}"
       /\ \A i \in 2..(Len(raw) - 1) : raw[i].tok = "member"
    THEN [exc |-> "None",
          value |-> IF HasMember(raw, "id") /\ HasMember(raw, "html")
                    THEN [id |-> LastMember(raw, "id"),
                          html |-> LastMember(raw, "html")]
                    ELSE IF HasMember(raw, "id")
                    THEN [id |-> LastMember(raw, "id")]
                    ELSE IF HasMember(raw, "html")
                    THEN [html |-> LastMember(raw, "html")]
                    ELSE <<>>]
    ELSE [exc |-> "JSONDecodeError"]

\* ------------------------------------------------------------------------
\* BaseLLMProcessor.load_blocks and handle_rewrites
\* ------------------------------------------------------------------------
\* load_blocks, lines 107-108: the comprehension decodes every string; the
\* first json.loads that raises ends it.
RECURSIVE load_from(_, _, _)
load_from(raws, i, acc) ==
    IF i > Len(raws) THEN [exc |-> "None", value |-> acc]
    ELSE LET r == json_loads(raws[i])
         IN  IF r.exc # "None" THEN [exc |-> r.exc, value |-> <<>>]
             ELSE load_from(raws, i + 1, Append(acc, r.value))

load_blocks(raws) == load_from(raws, 1, <<>>)

handle_rewrites_catches_ValueError(exc) == exc = "ValueError"

\* except Exception, line 127
handle_rewrites_catches(exc) ==
    exc \in {"KeyError", "AttributeError", "ValueError", "ValidationError"}

decode_block_id_swapped(s) ==
    LET parts == split(lstrip(strip(s), "/"), "/")
    IN  IF Len(parts) # 4 THEN [exc |-> "ValueError"]
        ELSE IF ~HasBlockType(parts[3]) THEN [exc |-> "AttributeError"]
        ELSE IF ~IsInt(parts[2]) \/ ~IsInt(parts[4])
        THEN [exc |-> "ValidationError"]
        ELSE [exc |-> "None",
              addr |-> BlockId(int_str(parts[4]), parts[3][1],
                               int_str(parts[2]))]

\* Lines 113-119: the id text of a record is stripped of surrounding
\* whitespace and of leading separators, split at the separators into
\* exactly four segments, and turned into a BlockId.
decode_block_id(s) ==
    LET parts == split(lstrip(strip(s), "/"), "/")
    IN  IF Len(parts) # 4 THEN [exc |-> "ValueError"]
        ELSE IF ~HasBlockType(parts[3]) THEN [exc |-> "AttributeError"]
        ELSE IF ~IsInt(parts[2]) \/ ~IsInt(parts[4])
        THEN [exc |-> "ValidationError"]
        ELSE [exc |-> "None",
              addr |-> BlockId(int_str(parts[2]), parts[3][1],
                               int_str(parts[4]))]

hasattr_html_always(blk) == TRUE

\* hasattr(block, "html"), line 125
hasattr_html(blk) == blk.has_html

new_html_appended(current, value) ==
    IF current = "orig" THEN value ELSE "appended"

\* block.html = block_data["html"], line 126
new_html(current, value) == value

\* The body of the try block, lines 113-126, for one record.
try_rewrite(block_data, doc) ==
    IF "id" \notin DOMAIN block_data
    THEN [exc |-> "KeyError", document |-> doc, outcome |-> "error"]
    ELSE IF "str" \notin DOMAIN block_data.id
    THEN [exc |-> "AttributeError", document |-> doc, outcome |-> "error"]
    ELSE LET d == decode_block_id(block_data.id.str)
         IN  IF d.exc # "None"
             THEN [exc |-> d.exc, document |-> doc, outcome |-> "error"]
             ELSE IF ~HasBlock(doc, d.addr)
             THEN [exc |-> "None", document |-> doc, outcome |-> "not_found"]
             ELSE IF ~hasattr_html(BlockAt(doc, get_block(doc, d.addr)))
             THEN [exc |-> "None", document |-> doc, outcome |-> "no_html"]
             ELSE IF "html" \notin DOMAIN block_data
             THEN [exc |-> "KeyError", document |-> doc, outcome |-> "error"]
             ELSE [exc |-> "None",
                   document |->
                       SetHtml(doc, get_block(doc, d.addr),
                               new_html(BlockAt(doc, get_block(doc, d.addr)).html,
                                        block_data.html)),
                   outcome |-> "applied"]

\* One iteration of the loop, lines 111-129: the try block and the except
\* clause, whose log message evaluates block_data['id'].
rewrite_one(block_data, doc) ==
    LET r == try_rewrite(block_data, doc)
    IN  IF r.exc = "None" THEN r
        ELSE IF ~handle_rewrites_catches(r.exc)
        THEN [exc |-> r.exc, document |-> doc, outcome |-> "raised"]
        ELSE IF "id" \notin DOMAIN block_data
        THEN [exc |-> "KeyError", document |-> doc, outcome |-> "raised"]
        ELSE [exc |-> "None", document |-> doc, outcome |-> "skipped"]

RECURSIVE handle_from(_, _, _, _)
handle_from(bs, i, doc, outs) ==
    IF i > Len(bs) THEN [document |-> doc, raised |-> FALSE, outcomes |-> outs]
    ELSE LET r == rewrite_one(bs[i], doc)
         IN  IF r.outcome = "raised"
             THEN [document |-> r.document, raised |-> TRUE,
                   outcomes |-> Append(outs, r.outcome)]
             ELSE handle_from(bs, i + 1, r.document, Append(outs, r.outcome))

\* handle_rewrites, lines 110-129
handle_rewrites(bs, doc) == handle_from(bs, 1, doc, <<>>)

\* ------------------------------------------------------------------------
\* SpecRewrite: one response batch applied to one document
\* ------------------------------------------------------------------------
HtmlBlock(t) == [block_type |-> t, html |-> "orig", has_html |-> TRUE]

PlainBlock(t) == [block_type |-> t, html |-> "orig", has_html |-> FALSE]

RewriteDocuments ==
    { << <<HtmlBlock("Table"), HtmlBlock("Text")>> >>,
      << <<HtmlBlock("Table")>>, <<PlainBlock("Text"), HtmlBlock("Table")>> >>,
      << <<>>, <<HtmlBlock("Text")>> >> }

\* Ids that decode to an address: the canonical text of three addresses,
\* one with extra leading separators, one padded with whitespace
WellFormedIds ==
    { [id |-> str_BlockId(a), addr |-> a] :
        a \in {BlockId(0, "Table", 0), BlockId(0, "Text", 1),
               BlockId(1, "Text", 0)} }
    \cup { [id |-> <<"/", "/">> \o str_BlockId(BlockId(1, "Table", 1)),
            addr |-> BlockId(1, "Table", 1)],
           [id |-> <<" ">> \o str_BlockId(BlockId(0, "Text", 1)) \o <<" ">>,
            addr |-> BlockId(0, "Text", 1)] }

\* Ids that decode to nothing: three segments, five segments, an unknown
\* type name, an empty segment
MalformedIds ==
    { <<"/", "page", "/", "0", "/", "Table">>,
      <<"/", "page", "/", "0", "/", "Table", "/", "0", "/", "1">>,
      <<"/", "doc", "/", "p1", "/", "UnknownType", "/", "b1">>,
      <<"/", "page", "/", "/", "Table", "/", "0">> }

TrailingSeparatorIds ==
    { str_BlockId(BlockId(0, "Table", 0)) \o <<"/">> }

RewriteRecords ==
    { [id |-> JStr(w.id), html |-> "h1"] : w \in WellFormedIds }
    \cup { [id |-> JStr(str_BlockId(BlockId(0, "Table", 0))), html |-> "h2"] }
    \cup { [id |-> JStr(m), html |-> "h2"] : m \in MalformedIds }
    \cup { [id |-> JStr(t), html |-> "h2"] : t \in TrailingSeparatorIds }
    \cup { [html |-> "h2"],
           [id |-> JStr(str_BlockId(BlockId(0, "Table", 0)))],
           [id |-> JNum(5), html |-> "h2"] }

Truncated(raw) == SubSeq(raw, 1, Len(raw) - 1)

RawTexts ==
    { json_dumps(r) : r \in RewriteRecords }
    \cup { Truncated(json_dumps([id |-> JStr(str_BlockId(BlockId(0, "Text", 1))),
                                 html |-> "h1"])) }

InitRewrite ==
    /\ document \in RewriteDocuments
    /\ document0 = document
    /\ response \in SeqsUpTo(RawTexts, MaxBatch)
    /\ blocks = <<>>
    /\ rw_pc = "start"
    /\ outcomes = <<>>
    /\ prompts = <<>>
    /\ sp_pc = "start"
    /\ attempts = <<>>
    /\ nm_args = NoArgs
    /\ block_json = NoBlockJson
    /\ nm_pc = "start"
    /\ use_llm = TRUE
    /\ llm_service = init_llm_service(use_llm, "service")
    /\ max_concurrency = MaxPool
    /\ block_types = NoTypes
    /\ pc = "idle"
    /\ counted = FALSE
    /\ pbar = "none"
    /\ pbar_n = 0
    /\ executor = "none"
    /\ tasks = <<>>
    /\ page_cursor = 1
    /\ page_blocks = <<>>
    /\ yielded = {}
    /\ visits = [pr \in AllPairs(document) |-> 0]
    /\ raised = FALSE
    /\ warnings = 0
    /\ propagated = FALSE

\* load_blocks(response)
LoadBlocks ==
    /\ rw_pc = "start"
    /\ LET r == load_blocks(response)
       IN  IF r.exc = "None"
           THEN /\ blocks' = r.value
                /\ rw_pc' = "loaded"
           ELSE /\ blocks' = <<>>
                /\ rw_pc' = "load_raised"
    /\ UNCHANGED <<poolvars, spvars, nmvars, response, outcomes>>

\* handle_rewrites(blocks, document)
HandleRewrites ==
    /\ rw_pc = "loaded"
    /\ LET r == handle_rewrites(blocks, document)
       IN  /\ document' = r.document
           /\ outcomes' = r.outcomes
           /\ rw_pc' = IF r.raised THEN "raised" ELSE "done"
    /\ UNCHANGED <<nmvars, document0, use_llm, llm_service, max_concurrency,
                   block_types, pc, counted, pbar, pbar_n, executor, tasks,
                   page_cursor, page_blocks, yielded, visits, raised, warnings,
                   propagated, response, blocks, spvars>>

\* The caller applies the same records once more:
\* handle_rewrites(blocks, document) again
HandleRewritesAgain ==
    /\ rw_pc = "done"
    /\ LET r == handle_rewrites(blocks, document)
       IN  /\ document' = r.document
           /\ outcomes' = r.outcomes
           /\ rw_pc' = IF r.raised THEN "raised_twice" ELSE "done_twice"
    /\ UNCHANGED <<nmvars, document0, use_llm, llm_service, max_concurrency,
                   block_types, pc, counted, pbar, pbar_n, executor, tasks,
                   page_cursor, page_blocks, yielded, visits, raised, warnings,
                   propagated, response, blocks, spvars>>

NextRewrite ==
    \/ LoadBlocks
    \/ HandleRewrites
    \/ HandleRewritesAgain

SpecRewrite == InitRewrite /\ [][NextRewrite]_vars

\* ------------------------------------------------------------------------
\* BaseLLMSimpleBlockProcessor
\* ------------------------------------------------------------------------
RECURSIVE PairsOf(_, _)
PairsOf(page_id, block_ids) ==
    IF block_ids = <<>> THEN <<>>
    ELSE <<[page |-> page_id, block |-> Head(block_ids)]>>
         \o PairsOf(page_id, Tail(block_ids))

RECURSIVE inference_from(_, _, _)
inference_from(doc, types, p) ==
    IF p > Len(doc) THEN <<>>
    ELSE PairsOf(p - 1, contained_blocks(doc[p], types))
         \o inference_from(doc, types, p + 1)

inference_blocks_first_page(doc, types) ==
    IF doc = <<>> THEN <<>> ELSE PairsOf(0, contained_blocks(doc[1], types))

\* inference_blocks, lines 191-196
inference_blocks(doc, types) == inference_from(doc, types, 1)

simple_call_catches_nothing(exc) == FALSE

\* except Exception, line 187
simple_call_catches(exc) == exc \in {"Exception"}

InitSimple ==
    /\ document \in PoolDocuments
    /\ document0 = document
    /\ block_types \in {NoTypes, OnlyTypes({"Table"})}
    /\ prompts = <<>>
    /\ sp_pc = "start"
    /\ attempts = <<>>
    /\ nm_args = NoArgs
    /\ block_json = NoBlockJson
    /\ nm_pc = "start"
    /\ use_llm \in BOOLEAN
    /\ llm_service = "None"
    /\ max_concurrency = MaxPool
    /\ response = <<>>
    /\ blocks = <<>>
    /\ rw_pc = "start"
    /\ outcomes = <<>>
    /\ pc = "idle"
    /\ counted = FALSE
    /\ pbar = "none"
    /\ pbar_n = 0
    /\ executor = "none"
    /\ tasks = <<>>
    /\ page_cursor = 1
    /\ page_blocks = <<>>
    /\ yielded = {}
    /\ visits = [pr \in AllPairs(document) |-> 0]
    /\ raised = FALSE
    /\ warnings = 0
    /\ propagated = FALSE

\* The caller collects the blocks to prompt for: inference_blocks(document)
InferenceBlocks ==
    /\ sp_pc = "start"
    /\ prompts' = inference_blocks(document, block_types)
    /\ sp_pc' = IF prompts' = <<>> THEN "done" ELSE "looping"
    /\ UNCHANGED <<poolvars, rwvars, nmvars, attempts>>

\* One iteration of the caller's loop: __call__(result, prompt_data,
\* document), lines 184-189.  rewrite_block rewrites the prompt's block and
\* returns, or raises, before or after it wrote to the block.
SimpleCall ==
    /\ sp_pc = "looping"
    /\ LET i == Len(attempts) + 1
           target == <<prompts[i].page, prompts[i].block>>
       IN  \E ok \in BOOLEAN, wrote \in BOOLEAN :
             /\ ok => wrote
             /\ document' = IF ok THEN SetHtml(document, target, "llm")
                            ELSE IF wrote THEN SetHtml(document, target, "partial")
                            ELSE document
             /\ attempts' = Append(attempts, IF ok THEN "ok" ELSE "failed")
             /\ IF ok
                THEN /\ sp_pc' = IF i = Len(prompts) THEN "done" ELSE "looping"
                     /\ UNCHANGED <<warnings, propagated>>
                ELSE IF simple_call_catches("Exception")
                THEN /\ warnings' = warnings + 1
                     /\ sp_pc' = IF i = Len(prompts) THEN "done" ELSE "looping"
                     /\ UNCHANGED propagated
                ELSE /\ propagated' = TRUE
                     /\ sp_pc' = "aborted"
                     /\ UNCHANGED warnings
    /\ UNCHANGED <<nmvars, document0, use_llm, llm_service, max_concurrency,
                   block_types, pc, counted, pbar, pbar_n, executor, tasks,
                   page_cursor, page_blocks, yielded, visits, raised, rwvars,
                   prompts>>

NextSimple ==
    \/ InferenceBlocks
    \/ SimpleCall

SpecSimple == InitSimple /\ [][NextSimple]_vars

\* ------------------------------------------------------------------------
\* Properties of the simple processor (checked under SpecSimple)
\* ------------------------------------------------------------------------
Failures(as) == {i \in DOMAIN as : as[i] = "failed"}

\* C10: __call__ suppresses every failure of rewrite_block: nothing is ever
\* raised into the caller's loop, so the loop reaches all its pairs, each
\* failure is logged, and the successful applications are in the document.
C10_HandleNeverRaises ==
    /\ ~propagated
    /\ sp_pc # "aborted"
    /\ warnings = Cardinality(Failures(attempts))
    /\ sp_pc = "done" =>
          /\ Len(attempts) = Len(prompts)
          /\ \A i \in DOMAIN attempts :
                attempts[i] = "ok" =>
                    BlockAt(document, <<prompts[i].page, prompts[i].block>>).html = "llm"

C10_Witness ==
    /\ sp_pc = "done"
    /\ Len(prompts) >= 3
    /\ attempts[1] = "failed"
    /\ attempts[2] = "ok"
    /\ attempts[3] = "failed"
    /\ BlockAt(document, <<prompts[2].page, prompts[2].block>>).html = "llm"

\* ------------------------------------------------------------------------
\* Properties of load_blocks and handle_rewrites (checked under SpecRewrite)
\* ------------------------------------------------------------------------
HandleRewritesExited == rw_pc \in {"done", "raised"}

IsMalformedRecord(r) ==
    /\ "id" \in DOMAIN r
    /\ "str" \in DOMAIN r.id
    /\ r.id.str \in MalformedIds

\* A record with a well-formed id and an html value that addresses a block
\* of doc which has an html field
IsValidRecordFor(r, doc) ==
    /\ "id" \in DOMAIN r
    /\ "html" \in DOMAIN r
    /\ "str" \in DOMAIN r.id
    /\ \E w \in WellFormedIds :
          /\ w.id = r.id.str
          /\ HasBlock(doc, w.addr)
          /\ BlockAt(doc, <<w.addr.page_id, w.addr.block_id>>).has_html

AddrOfRecord(r) == (CHOOSE w \in WellFormedIds : w.id = r.id.str).addr

\* The records of bs that address the block pr
Addressing(bs, doc, pr) ==
    {i \in DOMAIN bs :
        /\ IsValidRecordFor(bs[i], doc)
        /\ <<AddrOfRecord(bs[i]).page_id, AddrOfRecord(bs[i]).block_id>> = pr}

Max(S) == CHOOSE x \in S : \A y \in S : y <= x

\* C5 (as claimed): handle_rewrites never raises and reaches every record of
\* the batch, whatever is wrong with one of them.
C5_PerRecordIsolation ==
    HandleRewritesExited =>
        /\ rw_pc = "done"
        /\ Len(outcomes) = Len(blocks)

\* C6: in a batch where exactly one record has a malformed id and the others
\* are valid, handle_rewrites does not raise, every block addressed by a
\* valid record carries that record's html (the last one, when several
\* address it), and every other block is as before.
C6_OneMalformedId ==
    (/\ HandleRewritesExited
     /\ Cardinality({i \in DOMAIN blocks : IsMalformedRecord(blocks[i])}) = 1
     /\ \A i \in DOMAIN blocks :
            IsMalformedRecord(blocks[i]) \/ IsValidRecordFor(blocks[i], document0))
    =>
        /\ rw_pc = "done"
        /\ Len(outcomes) = Len(blocks)
        /\ \A pr \in AllPairs(document0) :
              BlockAt(document, pr) =
                  IF Addressing(blocks, document0, pr) = {}
                  THEN BlockAt(document0, pr)
                  ELSE [BlockAt(document0, pr) EXCEPT
                          !.html = blocks[Max(Addressing(blocks, document0, pr))].html]

\* The malformed record sits between two valid ones, both of which were
\* applied.
C6_Witness ==
    /\ rw_pc = "done"
    /\ Len(blocks) = 3
    /\ IsValidRecordFor(blocks[1], document0)
    /\ IsMalformedRecord(blocks[2])
    /\ blocks[2].id.str = <<"/", "doc", "/", "p1", "/", "UnknownType", "/", "b1">>
    /\ IsValidRecordFor(blocks[3], document0)
    /\ AddrOfRecord(blocks[1]) # AddrOfRecord(blocks[3])
    /\ outcomes = <<"applied", "skipped", "applied">>

\* C7 (as claimed): a raw string that is not valid JSON is skipped and the
\* other strings of the batch are still decoded and handed on.
C7_DecodePerString ==
    (/\ rw_pc # "start"
     /\ \E i \in DOMAIN response : json_loads(response[i]).exc = "None") =>
        /\ rw_pc # "load_raised"
        /\ Len(blocks) =
              Cardinality({i \in DOMAIN response : json_loads(response[i]).exc = "None"})

\* An id with separators added in front of, or after, its canonical text
ExtraSeparatorIds ==
    { [id |-> <<"/", "/">> \o str_BlockId(BlockId(1, "Table", 1)),
       canon |-> str_BlockId(BlockId(1, "Table", 1))] }
    \cup { [id |-> t, canon |-> SubSeq(t, 1, Len(t) - 1)] :
             t \in TrailingSeparatorIds }

HasStringId(r) == "id" \in DOMAIN r /\ "str" \in DOMAIN r.id

\* C12 (as claimed): an id with extra leading separators or with a trailing
\* separator decodes to the same address, and is resolved like, the id
\* without them.
C12_TrimsBothEnds ==
    HandleRewritesExited =>
        \A i \in DOMAIN outcomes :
            \A x \in ExtraSeparatorIds :
                (HasStringId(blocks[i]) /\ blocks[i].id.str = x.id) =>
                    /\ decode_block_id(x.id) = decode_block_id(x.canon)
                    /\ "html" \in DOMAIN blocks[i] =>
                          outcomes[i] =
                              rewrite_one([id |-> JStr(x.canon),
                                           html |-> blocks[i].html],
                                          document0).outcome

\* C13: applying a batch a second time leaves every block as the first
\* application left it, and a record that occurs twice in one batch leaves
\* the document as the batch with the record once.
C13_RewriteIdempotent ==
    [][ /\ (rw_pc = "done" /\ rw_pc' = "done_twice") => document' = document
        /\ (/\ rw_pc = "loaded" /\ rw_pc' = "done"
            /\ Len(blocks) = 2 /\ blocks[1] = blocks[2]) =>
               document' = handle_rewrites(<<blocks[1]>>, document).document
      ]_vars

C13_Witness ==
    /\ rw_pc = "done_twice"
    /\ Len(blocks) = 2
    /\ blocks[1] = blocks[2]
    /\ IsValidRecordFor(blocks[1], document0)
    /\ outcomes = <<"applied", "applied">>
    /\ document # document0

\* The record r has a well-formed id whose address is a
WellFormedFor(r, a) ==
    /\ HasStringId(r)
    /\ \E w \in WellFormedIds : w.id = r.id.str /\ w.addr = a

AddressesOf(doc) ==
    {BlockId(pr[1], BlockAt(doc, pr).block_type, pr[2]) : pr \in AllPairs(doc)}

MissingAddresses(doc) == {w.addr : w \in WellFormedIds} \ AddressesOf(doc)

\* C14: handle_rewrites changes only the html of blocks that a record
\* resolves to and that have an html field; a record whose address matches
\* no block is skipped; every other block, and every other field, stays.
C14_OnlyResolvedHtmlChanges ==
    HandleRewritesExited =>
        /\ Len(document) = Len(document0)
        /\ \A p \in DOMAIN document0 : Len(document[p]) = Len(document0[p])
        /\ \A pr \in AllPairs(document0) :
              LET b == BlockAt(document, pr)
                  b0 == BlockAt(document0, pr)
              IN  /\ [b EXCEPT !.html = b0.html] = b0
                  /\ b.html # b0.html =>
                        /\ b0.has_html
                        /\ \E i \in DOMAIN outcomes :
                              /\ WellFormedFor(blocks[i],
                                               BlockId(pr[1], b0.block_type, pr[2]))
                              /\ "html" \in DOMAIN blocks[i]
                              /\ blocks[i].html = b.html
        /\ \A i \in DOMAIN outcomes :
              (\E a \in MissingAddresses(document0) : WellFormedFor(blocks[i], a))
                  => outcomes[i] = "not_found"

C14_Witness ==
    /\ rw_pc = "done"
    /\ \E i, j, k \in DOMAIN outcomes :
          /\ outcomes[i] = "applied"
          /\ outcomes[j] = "not_found"
          /\ outcomes[k] = "no_html"
    /\ \E pr \in AllPairs(document0) :
          BlockAt(document, pr).html = BlockAt(document0, pr).html

\* ------------------------------------------------------------------------
\* More properties of the simple processor (checked under SpecSimple)
\* ------------------------------------------------------------------------
PromptPair(pd) == <<pd.page, pd.block>>

\* C16: inference_blocks returns one {page, block} pair for each matching
\* block and for no other, by page and then by position in the page, and
\* leaves the document as it was.
C16_InferenceBlocks ==
    sp_pc # "start" =>
        /\ {PromptPair(prompts[i]) : i \in DOMAIN prompts}
              = MatchingPairs(document0, block_types)
        /\ Len(prompts) = Cardinality(MatchingPairs(document0, block_types))
        /\ \A i, j \in DOMAIN prompts :
              i < j => \/ prompts[i].page < prompts[j].page
                       \/ /\ prompts[i].page = prompts[j].page
                          /\ prompts[i].block < prompts[j].block
        /\ attempts = <<>> => document = document0

C16_Witness ==
    /\ sp_pc = "looping"
    /\ attempts = <<>>
    /\ Len(prompts) >= 2
    /\ prompts[1].page # prompts[Len(prompts)].page
    /\ MatchingPairs(document0, block_types) # AllPairs(document0)

\* ------------------------------------------------------------------------
\* More properties of the complex processor (checked under Spec, FairSpec)
\* ------------------------------------------------------------------------
Targets == {TargetOf(tasks[i]) : i \in DOMAIN tasks}

Done == {i \in DOMAIN tasks : tasks[i].state = "done"}

\* C17: the submitted tasks partition the matching blocks: no block is the
\* target of two tasks, only matching blocks are targets, and once the
\* submission is over every matching block is a target and the number of
\* tasks is the count taken first, although earlier tasks rewrite their
\* blocks while later pages are enumerated.  No two running tasks share a
\* block.
C17_TaskPartition ==
    /\ \A i, j \in DOMAIN tasks :
          i # j => TargetOf(tasks[i]) # TargetOf(tasks[j])
    /\ Targets \subseteq MatchingPairs(document0, block_types)
    /\ (executor # "none" /\ pc # "submitting") =>
          /\ Targets = MatchingPairs(document0, block_types)
          /\ Len(tasks) = total_blocks(document0, block_types)
    /\ \A i, j \in Running :
          i # j => TargetOf(tasks[i]) # TargetOf(tasks[j])

\* A later page is about to be enumerated while one earlier task has
\* already rewritten its block and another is running.
C17_Witness ==
    /\ pc = "submitting"
    /\ page_blocks = <<>>
    /\ page_cursor <= Len(document)
    /\ contained_blocks(document[page_cursor], block_types) # <<>>
    /\ Running # {}
    /\ \E i \in Done :
          BlockAt(document, TargetOf(tasks[i])).html
              # BlockAt(document0, TargetOf(tasks[i])).html

\* C18 (as claimed): the counter never exceeds the number of completed
\* tasks, and when rewrite_blocks exits it equals that number.
C18_CounterEqualsCompletedAtExit ==
    /\ pbar_n <= Cardinality({i \in DOMAIN tasks : Completed(tasks[i])})
    /\ (RewriteBlocksExited /\ executor # "none") =>
          pbar_n = Cardinality({i \in DOMAIN tasks : Completed(tasks[i])})

\* C18 (amended): the counter is the number of successful futures yielded so
\* far, in completion order; it equals N when rewrite_blocks returns
\* normally, and is less than N when rewrite_blocks raises.
C18_ProgressCounter ==
    /\ pbar_n = Cardinality(yielded \cap Done)
    /\ pbar_n <= Cardinality({i \in DOMAIN tasks : Completed(tasks[i])})
    /\ (RewriteBlocksExited /\ executor # "none" /\ ~raised) =>
          /\ pbar_n = Len(tasks)
          /\ pbar_n = Cardinality(MatchingPairs(document0, block_types))
    /\ raised =>
          /\ pbar_n = Cardinality(yielded) - 1
          /\ pbar_n < Len(tasks)

\* rewrite_blocks raised after it had counted a future that was not the
\* first submitted; more tasks succeeded than were counted.
C18_Witness ==
    /\ pc = "rb_raised"
    /\ pbar_n >= 1
    /\ 1 \notin yielded
    /\ pbar_n < Cardinality(Done)

\* C19: under FairSpec, __call__ eventually returns.
C19_CallReturns == <>(pc = "returned")

C19_Witness ==
    /\ pc = "returned"
    /\ raised
    /\ Len(tasks) > max_concurrency
    /\ yielded # DOMAIN tasks

\* C20 (as claimed): the progress bar rewrite_blocks opened is closed when
\* rewrite_blocks exits, by return or by raising.
C20_BarClosedAtExit ==
    pc \in {"rb_raised", "rb_returned"} => pbar = "closed"

\* ------------------------------------------------------------------------
\* Python floats (IEEE 754 binary64).  A float is a sign, a mantissa of
\* Precision bits, most significant first and starting with 1, and the
\* exponent of its last bit: (-1)^neg * mant * 2^exp.  Zero has no bits.
\* ------------------------------------------------------------------------
Precision == 53

Zero == [neg |-> FALSE, mant |-> <<>>, exp |-> 0]

\* The binary digits of a natural number, most significant first
RECURSIVE Bits(_)
Bits(n) == IF n = 0 THEN <<>> ELSE Bits(n \div 2) \o <<n % 2>>

Zeros(n) == [i \in 1..n |-> 0]

\* The next mantissa up; all ones carry into the next binade
RECURSIVE Increment(_)
Increment(bits) ==
    IF bits = <<>> THEN <<1>>
    ELSE IF bits[Len(bits)] = 0
    THEN SubSeq(bits, 1, Len(bits) - 1) \o <<1>>
    ELSE Increment(SubSeq(bits, 1, Len(bits) - 1)) \o <<0>>

\* The float after m * 2^e in magnitude
NextUp(m, e) ==
    LET inc == Increment(m)
    IN  IF Len(inc) > Len(m)
        THEN [mant |-> SubSeq(inc, 1, Len(m)), exp |-> e + 1]
        ELSE [mant |-> inc, exp |-> e]

\* Round to nearest, ties to even: bits * 2^e, plus something below the last
\* bit when sticky, becomes a float magnitude
RoundNearestEven(bits, e, sticky) ==
    LET L == Len(bits)
    IN  IF L <= Precision
        THEN [mant |-> bits \o Zeros(Precision - L), exp |-> e - (Precision - L)]
        ELSE LET kept == SubSeq(bits, 1, Precision)
                 rest == SubSeq(bits, Precision + 1, L)
                 more == sticky \/ \E i \in 2..Len(rest) : rest[i] = 1
                 up   == rest[1] = 1 /\ (more \/ kept[Precision] = 1)
                 e2   == e + (L - Precision)
             IN  IF up THEN NextUp(kept, e2) ELSE [mant |-> kept, exp |-> e2]

WithSign(neg, mag) == [neg |-> neg, mant |-> mag.mant, exp |-> mag.exp]

\* float(n) for an integer n
FromInt(n) ==
    IF n = 0 THEN Zero
    ELSE WithSign(n < 0, RoundNearestEven(Bits(IF n < 0 THEN -n ELSE n), 0, FALSE))

\* Long division: the quotient bits of (acc.r / w) after the bits already
\* in acc, until one bit more than the precision is known
RECURSIVE QuotientBits(_, _, _, _)
QuotientBits(r, w, acc, e) ==
    IF Len(acc) > Precision THEN [bits |-> acc, exp |-> e, r |-> r]
    ELSE LET bit == IF 2 * r >= w THEN 1 ELSE 0
         IN  QuotientBits(2 * r - bit * w, w,
                          IF acc = <<>> /\ bit = 0 THEN <<>> ELSE acc \o <<bit>>,
                          e - 1)

\* a / w for integer-valued floats a and w > 0: the quotient, rounded once
truediv(a, w) ==
    IF a = 0 THEN Zero
    ELSE LET n == IF a < 0 THEN -a ELSE a
             q == QuotientBits(n % w, w, Bits(n \div w), 0)
         IN  WithSign(a < 0, RoundNearestEven(q.bits, q.exp, q.r # 0))

\* bits * k for a small natural k, from the last bit of bits[1..i] up
RECURSIVE TimesBits(_, _, _, _)
TimesBits(bits, i, k, carry) ==
    IF i = 0 THEN Bits(carry)
    ELSE LET v == bits[i] * k + carry
         IN  IF v % 2 = 1
             THEN TimesBits(bits, i - 1, k, v \div 2) \o <<1>>
             ELSE TimesBits(bits, i - 1, k, v \div 2) \o <<0>>

\* f * k for a float f and a small natural k: the product, rounded once
mul(f, k) ==
    IF f.mant = <<>> THEN f
    ELSE WithSign(f.neg, RoundNearestEven(TimesBits(f.mant, Len(f.mant), k, 0), f.exp, FALSE))

\* ------------------------------------------------------------------------
\* SpecNormalize: a request is built for one block, the answer echoes the
\* request's id, and the answer is applied to the document
\* ------------------------------------------------------------------------
MaxCoord == 3

MaxDim == 9

MaxId == 10

ExamplePage == <<1000, 2000>>

ExampleBBox == <<100, 200, 300, 400>>

\* page.polygon.width and page.polygon.height
Dimensions == (1..MaxDim) \cup {ExamplePage[1], ExamplePage[2]}

PageSizes ==
    {ps \in Dimensions \X Dimensions : ps[2] \in {ps[1], ps[1] + 1, 2 * ps[1]}}

\* block.polygon.bbox: boxes one wide and two high around the page origin,
\* some of them outside the page
BBoxes ==
    {<<x, y, x + 1, y + 2>> : x \in (-1)..MaxCoord, y \in (-1)..MaxCoord}
    \cup {ExampleBBox}

Coordinates == {b[i] : b \in BBoxes, i \in 1..4}

\* (coordinate / dimension) * 1000, lines 92-95
normalize_coordinate(c, d) == mul(truediv(c, d), 1000)

NormalizedCoordinates ==
    [c \in Coordinates, d \in Dimensions |-> normalize_coordinate(c, d)]

normalized_bbox_by_width(block_bbox, page_width, page_height) ==
    << NormalizedCoordinates[block_bbox[1], page_width],
       NormalizedCoordinates[block_bbox[2], page_width],
       NormalizedCoordinates[block_bbox[3], page_width],
       NormalizedCoordinates[block_bbox[4], page_width] >>

\* normalized_bbox, lines 91-96
normalized_bbox(block_bbox, page_width, page_height) ==
    << NormalizedCoordinates[block_bbox[1], page_width],
       NormalizedCoordinates[block_bbox[2], page_height],
       NormalizedCoordinates[block_bbox[3], page_width],
       NormalizedCoordinates[block_bbox[4], page_height] >>

\* block.id of the block at position pr of the document
IdOf(doc, pr) == BlockId(pr[1], BlockAt(doc, pr).block_type, pr[2])

\* json_to_html(block.render(document)): the block's markup
json_to_html(blk) == blk.html

\* normalize_block_json(block, document, page), lines 82-105
normalize_block_json(doc, pr, page_size, block_bbox) ==
    [ id         |-> str_BlockId(IdOf(doc, pr)),
      block_type |-> IdOf(doc, pr).block_type,
      bbox       |-> normalized_bbox(block_bbox, page_size[1], page_size[2]),
      html       |-> json_to_html(BlockAt(doc, pr)) ]

\* A document whose last page has the id MaxId and holds the blocks
\* 0..MaxId, of alternating types
LongDocument ==
    [p \in 1..(MaxId + 1) |->
        IF p <= MaxId THEN <<>>
        ELSE [b \in 1..(MaxId + 1) |->
                 HtmlBlock(IF b % 2 = 0 THEN "Table" ELSE "Text")]]

NormalizeDocuments == RewriteDocuments \cup {LongDocument}

InitNormalize ==
    /\ document \in NormalizeDocuments
    /\ document0 = document
    /\ response = <<>>
    /\ blocks = <<>>
    /\ rw_pc = "waiting"
    /\ outcomes = <<>>
    /\ prompts = <<>>
    /\ sp_pc = "start"
    /\ attempts = <<>>
    /\ nm_args = NoArgs
    /\ block_json = NoBlockJson
    /\ nm_pc = "start"
    /\ use_llm = TRUE
    /\ llm_service = init_llm_service(use_llm, "service")
    /\ max_concurrency = MaxPool
    /\ block_types = NoTypes
    /\ pc = "idle"
    /\ counted = FALSE
    /\ pbar = "none"
    /\ pbar_n = 0
    /\ executor = "none"
    /\ tasks = <<>>
    /\ page_cursor = 1
    /\ page_blocks = <<>>
    /\ yielded = {}
    /\ visits = [pr \in AllPairs(document) |-> 0]
    /\ raised = FALSE
    /\ warnings = 0
    /\ propagated = FALSE

\* normalize_block_json(block, document, page) for a block of the document
NormalizeBlock ==
    /\ nm_pc = "start"
    /\ \E pr \in AllPairs(document), page_size \in PageSizes, block_bbox \in BBoxes :
          /\ nm_args' = [pr |-> pr, page |-> page_size, bbox |-> block_bbox]
          /\ block_json' = normalize_block_json(document, pr, page_size, block_bbox)
    /\ nm_pc' = "normalized"
    /\ UNCHANGED <<poolvars, rwvars, spvars>>

\* The service answers with one record that echoes the request's id and
\* carries new markup.
Answer ==
    /\ nm_pc = "normalized"
    /\ rw_pc = "waiting"
    /\ response' = <<json_dumps([id |-> JStr(block_json.id), html |-> "h1"])>>
    /\ rw_pc' = "start"
    /\ nm_pc' = "answered"
    /\ UNCHANGED <<poolvars, spvars, nm_args, block_json, blocks, outcomes>>

NextNormalize ==
    \/ NormalizeBlock
    \/ Answer
    \/ LoadBlocks
    \/ HandleRewrites

SpecNormalize == InitNormalize /\ [][NextNormalize]_vars

\* ------------------------------------------------------------------------
\* Properties of the request side (checked under SpecNormalize)
\* ------------------------------------------------------------------------
\* C11: the id that normalize_block_json emits for a block decodes, by the
\* steps of handle_rewrites, to exactly the block's address, and the record
\* that echoes it is applied to that block and to no other.
C11_AddressRoundTrip ==
    nm_pc # "start" =>
        LET a == IdOf(document0, nm_args.pr)
        IN  /\ block_json.id = str_BlockId(a)
            /\ decode_block_id(block_json.id) = [exc |-> "None", addr |-> a]
            /\ HasBlock(document0, a)
            /\ get_block(document0, a) = nm_args.pr
            /\ rw_pc \notin {"load_raised", "raised"}
            /\ rw_pc = "done" =>
                  /\ outcomes = << IF hasattr_html(BlockAt(document0, nm_args.pr))
                                   THEN "applied" ELSE "no_html" >>
                  /\ document = IF hasattr_html(BlockAt(document0, nm_args.pr))
                                THEN SetHtml(document0, nm_args.pr, "h1")
                                ELSE document0

\* The echo of a request for the block MaxId of page MaxId was applied.
C11_Witness ==
    /\ rw_pc = "done"
    /\ nm_args.pr = <<MaxId, MaxId>>
    /\ Len(block_json.id) > Len(str_BlockId(BlockId(0, "Table", 0)))
    /\ BlockAt(document, nm_args.pr).html = "h1"
    /\ BlockAt(document0, nm_args.pr).html = "orig"

\* 1000 * c / d in floats: the product is exact, the quotient rounded once
exact_quotient(c, d) == truediv(1000 * c, d)

ExactQuotients ==
    [c \in Coordinates, d \in Dimensions |-> exact_quotient(c, d)]

\* The dimension that divides the i-th coordinate of a bbox
DimensionOf(page_size, i) == IF i \in {1, 3} THEN page_size[1] ELSE page_size[2]

\* C15 (as claimed): the returned bbox is exactly
\* (1000*x0/W, 1000*y0/H, 1000*x1/W, 1000*y1/H).
C15_ExactlyScaled ==
    nm_pc # "start" =>
        \A i \in 1..4 :
            block_json.bbox[i]
                = ExactQuotients[nm_args.bbox[i], DimensionOf(nm_args.page, i)]

\* a < b for float magnitudes
LessMagnitude(a, b) ==
    IF b.mant = <<>> THEN FALSE
    ELSE IF a.mant = <<>> THEN TRUE
    ELSE \/ a.exp < b.exp
         \/ /\ a.exp = b.exp
            /\ \E i \in 1..Precision :
                  /\ a.mant[i] < b.mant[i]
                  /\ \A j \in 1..(i - 1) : a.mant[j] = b.mant[j]

Successor(f) == WithSign(f.neg, NextUp(f.mant, f.exp))

\* a and b are at most two floats apart
WithinTwoUlps(a, b) ==
    \/ a = b
    \/ /\ a.mant # <<>>
       /\ b.mant # <<>>
       /\ \/ Successor(a) = b
          \/ Successor(b) = a
          \/ Successor(Successor(a)) = b
          \/ Successor(Successor(b)) = a

\* The largest odd divisor of d
RECURSIVE OddPart(_)
OddPart(d) == IF d % 2 = 0 THEN OddPart(d \div 2) ELSE d

\* c / d is a float exactly
ExactlyDivides(c, d) == c % OddPart(d) = 0

\* C15 (amended): each coordinate of the returned bbox is the float
\* (coordinate / dimension) * 1000, x by the width and y by the height: it is
\* within two units in the last place of 1000 * coordinate / dimension, equal
\* to it when coordinate / dimension is exact, above 1000 for a coordinate
\* beyond the dimension and negative for a negative one; the example page
\* gives (100, 100, 300, 200).
C15_NormalizedBBox ==
    nm_pc # "start" =>
        /\ \A i \in 1..4 :
              LET c == nm_args.bbox[i]
                  d == DimensionOf(nm_args.page, i)
                  v == block_json.bbox[i]
              IN  /\ v = NormalizedCoordinates[c, d]
                  /\ WithinTwoUlps(v, ExactQuotients[c, d])
                  /\ ExactlyDivides(c, d) => v = ExactQuotients[c, d]
                  /\ c > d => ~v.neg /\ LessMagnitude(FromInt(1000), v)
                  /\ c < 0 => v.neg
        /\ (nm_args.page = ExamplePage /\ nm_args.bbox = ExampleBBox) =>
              block_json.bbox
                  = <<FromInt(100), FromInt(100), FromInt(300), FromInt(200)>>

\* A box that starts left of the page and whose two y coordinates, by a
\* height of nine, come out one unit in the last place from 1000*y/H.
C15_Witness ==
    /\ nm_pc = "normalized"
    /\ nm_args.bbox[1] < 0
    /\ nm_args.page[1] # nm_args.page[2]
    /\ \A i \in {2, 4} :
          /\ block_json.bbox[i]
                # ExactQuotients[nm_args.bbox[i], DimensionOf(nm_args.page, i)]
          /\ WithinTwoUlps(block_json.bbox[i],
                ExactQuotients[nm_args.bbox[i], DimensionOf(nm_args.page, i)])

====
